---- MODULE Spec2Model ----
(***************************************************************************)
(* Per-layer filtering of tracing-subscriber: the FilterMap bitmask, the   *)
(* FilterId allocator, the thread-local FILTERING slot and the Filtered    *)
(* layer's lifecycle callbacks (tracing-subscriber/src/filter/mod.rs).     *)
(***************************************************************************)
EXTENDS Integers, FiniteSets, Sequences, TLC

\* ------------------------------------------------------------------------
\* Bounds of the model
\* ------------------------------------------------------------------------

\* Number of FilterMap::set calls applied to a seed bitmask (SpecFilterMap).
MaxSetOps == 1

\* Largest pipeline (number of Filtered layers) built in SpecRegister.
MaxPipeline == 66

\* Number of spans created (Spec).
NumSpans == 2

\* Layers stacked on the registry in SpecOption.
MaxLayers == 2

\* ------------------------------------------------------------------------
\* Program constants
\* ------------------------------------------------------------------------

\* Width of FilterMap.bits (u64).
BitWidth == 64

\* The largest u8: FilterId wraps a NonZeroU8.
U8Max == 255

\* ------------------------------------------------------------------------
\* FilterMap: bits: u64, represented by the set of positions of its 1 bits
\* ------------------------------------------------------------------------

BitIdx == 0 .. (BitWidth - 1)

\* The identities FilterMap accepts (debug_assert!(idx < 64) with idx = id - 1).
FilterIds == 1 .. BitWidth

\* The dispatching threads; each owns one FILTERING slot.
Threads == {"t1", "t2"}

\* The thread a single-threaded program dispatches on.
MainThread == "t1"

\* The pipeline that dispatches in Spec: the two Filtered layers A and B of
\* the concrete scenario, in stacking order (A is layer 1, B is layer 2).
Scenario == <<"A", "B">>

\* LevelFilter, from the least to the most permissive.
LevelFilters == <<"OFF", "ERROR", "WARN", "INFO", "DEBUG", "TRACE">>

\* Option<LevelFilter>::None: no hint.
NoHint == "None"

\* The values of max_level_hint: None, or Some of a LevelFilter.
Hints == {NoHint} \cup {LevelFilters[k] : k \in DOMAIN LevelFilters}

\* FilterMap::default(): bits = 0.
FilterMap_default == {}

\* The u64 value 1 << idx, computed without overflow checks: the shift
\* amount is taken modulo the width.
Shl1(idx) == {idx % BitWidth}

\* The u64 value !x.
BitNot(x) == BitIdx \ x

\* The u64 value x & y.
BitAnd(x, y) == x \cap y

\* The u64 value x | y.
BitOr(x, y) == x \cup y

\* Mutant: set() with the two branches swapped.
set_swapped(bits, id, en) ==
    LET idx == id - 1
    IN  IF en THEN BitOr(bits, Shl1(idx)) ELSE BitAnd(bits, BitNot(Shl1(idx)))

\* FilterMap::set(self, FilterId(idx), enabled).
set(bits, id, en) ==
    LET idx == id - 1
    IN  IF en THEN BitAnd(bits, BitNot(Shl1(idx))) ELSE BitOr(bits, Shl1(idx))

\* Mutant: is_enabled() that reads a set bit as enabled.
is_enabled_inverted(bits, id) ==
    LET idx == id - 1
    IN  BitAnd(bits, Shl1(idx)) # {}

\* FilterMap::is_enabled(&self, FilterId(idx)).
is_enabled(bits, id) ==
    LET idx == id - 1
    IN  BitAnd(bits, Shl1(idx)) = {}

\* ------------------------------------------------------------------------
\* State
\* ------------------------------------------------------------------------

VARIABLES
    fmSeed,     \* SpecFilterMap: the bitmask the run started from
    fmPrev,     \* SpecFilterMap: the bitmask before the last set call
    fm,         \* SpecFilterMap: the bitmask under test
    fmOp,       \* SpecFilterMap: the last set call, <<id, enabled>>, or <<>>
    fmOps,      \* SpecFilterMap: number of set calls made
    fmCall,     \* SpecContract: the last call that broke the identity contract
    build,      \* the build: are debug assertions / overflow checks compiled in
    layers,     \* SpecOption: the layers stacked on the registry, innermost first
    hint,       \* the max_level_hint of each layer's filter
    pipeline,   \* number of Filtered layers stacked in the pipeline
    registered, \* number of layers whose on_register has run
    nextId,     \* the allocator's counter: the next identity to hand out
    failed,     \* the pipeline construction died with a configuration error
    id,         \* Filtered.id of each layer (NoId before on_register)
    threads,    \* the threads the dispatch core runs on
    filtering,  \* FILTERING: the thread-local FilterMap of each thread
    cur,        \* the subject each thread is dispatching
    asked,      \* per thread and layer: the filter's verdict on the current subject
    predCalls,  \* per thread and layer: Filter::enabled calls for the current subject
    touched,    \* per thread: identities FILTERING has been set with
    emitted,    \* per thread and layer: on_event callbacks for the current event
    delivered,  \* per thread and layer: on_event calls the inner layer received
    home,       \* per span: the thread that evaluated the filters for it
    store,      \* persisted per-span verdicts: <<span, identity, verdict>>
    last        \* the last callback made and what it did

fmVars == <<fmSeed, fmPrev, fm, fmOp, fmOps, fmCall, build, layers>>

regVars == <<pipeline, registered, nextId, failed, id, hint>>

dispVars == <<threads, filtering, cur, asked, predCalls, touched, emitted,
              delivered, home, store>>

vars == <<fmVars, regVars, dispVars, last>>

\* Filtered.id before on_register has assigned it.
NoId == 0

Wrappers == 1 .. pipeline

Spans == 1 .. NumSpans

NoSubject == [kind |-> "none", span |-> 0]

EventSubject == [kind |-> "event", span |-> 0]

SpanSubject(s) == [kind |-> "span", span |-> s]

\* What a callback did: the inner layer's calls (fwd) and the filter
\* predicate's calls (pred) it made; with them the callback's name
\* (cb), the thread (t), the layer (w), the spans (a, b) it was made with,
\* and what it returned (ret; "-" for the unit value).
Callback(cb, t, w, a, b, fwd, pred) ==
    [cb |-> cb, t |-> t, w |-> w, a |-> a, b |-> b, fwd |-> fwd, pred |-> pred,
     ret |-> "-"]

\* The callback c, returning r.
Returning(c, r) == [c EXCEPT !.ret = r]

NoCallback == Callback("none", "-", 0, 0, 0, 0, 0)

\* No callback is in progress.
Idle == last = NoCallback

\* The callback in progress returns to the dispatch core.
callback_returns ==
    /\ ~Idle
    /\ last' = NoCallback
    /\ UNCHANGED <<fmVars, regVars, dispVars>>

\* ------------------------------------------------------------------------
\* FilterMap as a value type (SpecFilterMap)
\* ------------------------------------------------------------------------

\* Bitmasks the runs start from: the default, all disabled, the low half,
\* every other bit, the top bit alone.
SeedMaps ==
    { FilterMap_default,
      BitIdx,
      {i \in BitIdx : i < 32},
      {i \in BitIdx : i % 2 = 1},
      {BitWidth - 1} }

\* No call has broken the identity contract.
NoCall == [op |-> "none", id |-> 0, outcome |-> "-"]

\* The build profiles: debug_assert! is compiled in or out, and << checks
\* its shift amount or wraps it.
Builds == [debug_assertions : BOOLEAN, overflow_checks : BOOLEAN]

\* The profile of a development build.
DebugBuild == [debug_assertions |-> TRUE, overflow_checks |-> TRUE]

InitFilterMap ==
    /\ fmPrev = fmSeed
    /\ fm = fmSeed
    /\ fmOp = <<>>
    /\ fmOps = 0
    /\ fmCall = NoCall
    /\ layers = <<>>

\* A caller replaces its bitmask by set(id, enabled) of it.
FM_set(i, b) ==
    /\ fmOps < MaxSetOps
    /\ fmCall = NoCall
    /\ fmPrev' = fm
    /\ fm' = set(fm, i, b)
    /\ fmOp' = <<i, b>>
    /\ fmOps' = fmOps + 1
    /\ UNCHANGED <<fmSeed, fmCall, build, layers, regVars, dispVars, last>>

\* ------------------------------------------------------------------------
\* FilterId and the allocator
\* ------------------------------------------------------------------------

\* FilterId::new: NonZeroU8::new(id).expect("filter IDs may not be 0")
\* succeeds for every u8 but 0.
FilterId_new_ok(n) == n \in 1 .. 255

\* FilterId::new: the identity it wraps.
FilterId_new(n) == n

\* Mutant: an allocator without the capacity check.
register_filter_ok_unchecked(n) == FilterId_new_ok(n)

\* The allocator hands out n unless the identity space 1..64 is exhausted.
register_filter_ok(n) == n <= BitWidth /\ FilterId_new_ok(n)

\* Mutant: on_register that drops the allocated identity.
on_register_dropped(w) ==
    /\ Idle
    /\ ~failed
    /\ w = registered + 1
    /\ w <= pipeline
    /\ registered' = w
    /\ IF register_filter_ok(nextId)
       THEN /\ id' = id
            /\ nextId' = nextId + 1
            /\ failed' = FALSE
            /\ last' = Callback("on_register", "-", w, 0, 0, 1, 0)
       ELSE /\ id' = [v \in Wrappers |-> NoId]
            /\ failed' = TRUE
            /\ last' = Callback("on_register", "-", w, 0, 0, 0, 0)
            /\ UNCHANGED nextId
    /\ UNCHANGED <<pipeline, hint, fmVars, dispVars>>

\* Filtered::on_register: self.id = subscriber.register_filter(), then
\* self.layer.on_register(subscriber). The pipeline registers its layers in
\* stacking order, each once; a failed allocation aborts the construction
\* and the pipeline with all its layers is dropped.
on_register(w) ==
    /\ Idle
    /\ ~failed
    /\ w = registered + 1
    /\ w <= pipeline
    /\ registered' = w
    /\ IF register_filter_ok(nextId)
       THEN /\ id' = [id EXCEPT ![w] = FilterId_new(nextId)]
            /\ nextId' = nextId + 1
            /\ failed' = FALSE
            /\ last' = Callback("on_register", "-", w, 0, 0, 1, 0)
       ELSE /\ id' = [v \in Wrappers |-> NoId]
            /\ failed' = TRUE
            /\ last' = Callback("on_register", "-", w, 0, 0, 0, 0)
            /\ UNCHANGED nextId
    /\ UNCHANGED <<pipeline, hint, fmVars, dispVars>>

\* ------------------------------------------------------------------------
\* The dispatch core (the collaborator that drives the callbacks)
\* ------------------------------------------------------------------------

\* The pipeline is built: every layer is registered and nothing failed.
Live == Idle /\ ~failed /\ registered = pipeline

\* The persisted verdict of the layer with identity i for span s:
\* "true", "false", or "absent" when none was stored.
load(s, i) ==
    IF <<s, i, TRUE>> \in store THEN "true"
    ELSE IF <<s, i, FALSE>> \in store THEN "false"
    ELSE "absent"

\* Context::is_enabled_for(span, filter): a missing verdict is not enabled.
is_enabled_for(s, i) == load(s, i) = "true"

\* Context::if_enabled_for(span, filter): Some(cx.with_filter(filter)) when
\* the span is enabled for the filter, None otherwise.
if_enabled_for(s, i) == is_enabled_for(s, i)

Verdict(v) == IF v THEN "true" ELSE "false"

Calls(b) == IF b THEN 1 ELSE 0

FreshThread(f, t, x) == [f EXCEPT ![t] = [w \in Wrappers |-> x]]

\* A thread starts to dispatch its next event.
BeginEvent(t) ==
    /\ Live
    /\ cur' = [cur EXCEPT ![t] = EventSubject]
    /\ asked' = FreshThread(asked, t, "none")
    /\ predCalls' = FreshThread(predCalls, t, 0)
    /\ emitted' = FreshThread(emitted, t, 0)
    /\ delivered' = FreshThread(delivered, t, 0)
    /\ UNCHANGED <<threads, filtering, touched, home, store, last, fmVars,
                   regVars>>

\* A thread starts to create span s; span identities are handed out in
\* increasing order.
BeginSpan(t, s) ==
    /\ Live
    /\ home[s] = "-"
    /\ \A r \in 1 .. (s - 1) : home[r] # "-"
    /\ home' = [home EXCEPT ![s] = t]
    /\ cur' = [cur EXCEPT ![t] = SpanSubject(s)]
    /\ asked' = FreshThread(asked, t, "none")
    /\ predCalls' = FreshThread(predCalls, t, 0)
    /\ emitted' = FreshThread(emitted, t, 0)
    /\ delivered' = FreshThread(delivered, t, 0)
    /\ UNCHANGED <<threads, filtering, touched, store, last, fmVars, regVars>>

\* ------------------------------------------------------------------------
\* Filtered: the lifecycle callbacks
\* ------------------------------------------------------------------------

\* Mutant: did_enable that asks whether any filter disabled the subject.
did_enable_any(t, w) == filtering[t] = FilterMap_default

\* Filtered::did_enable: FILTERING.with(|f| f.get().is_enabled(self.id)).
did_enable(t, w) == is_enabled(filtering[t], id[w])

\* Mutant: the slot is reset to the default before the verdict is recorded.
recorded_fresh(t, w, v) == set(FilterMap_default, id[w], v)

\* Mutant: the verdict is computed but the slot is left as it was.
recorded_nowhere(t, w, v) == filtering[t]

\* Filtered::enabled: the thread's slot after
\* filtering.set(filtering.get().set(self.id, enabled)).
recorded(t, w, v) == set(filtering[t], id[w], v)

\* Mutant: FILTERING as one cell shared by all threads.
FILTERING_set_static(t, m) == [u \in Threads |-> m]

\* FILTERING.with(|filtering| filtering.set(m)) on thread t: thread_local!
\* gives every thread its own cell.
FILTERING_set(t, m) == [filtering EXCEPT ![t] = m]

\* Filtered::enabled on thread t for the subject the thread dispatches; v is
\* what self.filter.enabled(metadata, &cx) returns. For a span the core
\* persists the verdict under the layer's identity.
enabled(t, w, v) ==
    /\ Live
    /\ cur[t].kind # "none"
    /\ asked[t][w] = "none"
    /\ filtering' = FILTERING_set(t, recorded(t, w, v))
    /\ touched' = [touched EXCEPT ![t] = @ \cup {id[w]}]
    /\ asked' = [asked EXCEPT ![t][w] = Verdict(v)]
    /\ predCalls' = [predCalls EXCEPT ![t][w] = @ + 1]
    /\ store' = IF cur[t].kind = "span"
                THEN store \cup {<<cur[t].span, id[w], v>>}
                ELSE store
    /\ last' = Returning(Callback("enabled", t, w, cur[t].span, 0, 0, 1),
                          Verdict(v))
    /\ UNCHANGED <<threads, cur, emitted, delivered, home, fmVars, regVars>>

\* Filtered::new_span on the thread that evaluated the filters for span s.
new_span(t, w, s) ==
    /\ Live
    /\ home[s] = t
    /\ load(s, id[w]) # "absent"
    /\ last' = Callback("new_span", t, w, s, 0, Calls(did_enable(t, w)), 0)
    /\ UNCHANGED <<dispVars, fmVars, regVars>>

\* Mutant: on_event that asks the filter again instead of reading the slot.
on_event_reevaluates(t, w) ==
    /\ Live
    /\ cur[t].kind = "event"
    /\ asked[t][w] # "none"
    /\ emitted[t][w] = 0
    /\ emitted' = [emitted EXCEPT ![t][w] = @ + 1]
    /\ predCalls' = [predCalls EXCEPT ![t][w] = @ + 1]
    /\ delivered' = [delivered EXCEPT ![t][w] = @ + Calls(asked[t][w] = "true")]
    /\ last' = Callback("on_event", t, w, 0, 0, Calls(asked[t][w] = "true"), 1)
    /\ UNCHANGED <<threads, filtering, cur, asked, touched, home, store,
                   fmVars, regVars>>

\* Mutant: on_event that forwards whatever the slot says.
on_event_unfiltered(t, w) ==
    /\ Live
    /\ cur[t].kind = "event"
    /\ asked[t][w] # "none"
    /\ emitted[t][w] = 0
    /\ emitted' = [emitted EXCEPT ![t][w] = @ + 1]
    /\ delivered' = [delivered EXCEPT ![t][w] = @ + 1]
    /\ last' = Callback("on_event", t, w, 0, 0, 1, 0)
    /\ UNCHANGED <<threads, filtering, cur, asked, predCalls, touched, home,
                   store, fmVars, regVars>>

\* Mutant: on_event that takes the slot, leaving the default behind.
on_event_clears(t, w) ==
    /\ Live
    /\ cur[t].kind = "event"
    /\ asked[t][w] # "none"
    /\ emitted[t][w] = 0
    /\ emitted' = [emitted EXCEPT ![t][w] = @ + 1]
    /\ delivered' = [delivered EXCEPT ![t][w] = @ + Calls(did_enable(t, w))]
    /\ filtering' = [filtering EXCEPT ![t] = FilterMap_default]
    /\ last' = Callback("on_event", t, w, 0, 0, Calls(did_enable(t, w)), 0)
    /\ UNCHANGED <<threads, cur, asked, predCalls, touched, home, store,
                   fmVars, regVars>>

\* Filtered::on_event on thread t for the event the thread dispatches.
on_event(t, w) ==
    /\ Live
    /\ cur[t].kind = "event"
    /\ asked[t][w] # "none"
    /\ emitted[t][w] = 0
    /\ emitted' = [emitted EXCEPT ![t][w] = @ + 1]
    /\ delivered' = [delivered EXCEPT ![t][w] = @ + Calls(did_enable(t, w))]
    /\ last' = Callback("on_event", t, w, 0, 0, Calls(did_enable(t, w)), 0)
    /\ UNCHANGED <<threads, filtering, cur, asked, predCalls, touched, home,
                   store, fmVars, regVars>>

\* Mutant: on_record that forwards without asking the context.
on_record_unfiltered(w, s) ==
    /\ Live
    /\ last' = Callback("on_record", "-", w, s, 0, 1, 0)
    /\ UNCHANGED <<dispVars, fmVars, regVars>>

\* Filtered::on_record.
on_record(w, s) ==
    /\ Live
    /\ last' = Callback("on_record", "-", w, s, 0,
                        Calls(if_enabled_for(s, id[w])), 0)
    /\ UNCHANGED <<dispVars, fmVars, regVars>>

\* Mutant: on_follows_from that forwards when either span is enabled.
follows_from_forwards_either(w, span, follows) ==
    is_enabled_for(span, id[w]) \/ is_enabled_for(follows, id[w])

\* Filtered::on_follows_from: the condition under which it forwards.
follows_from_forwards(w, span, follows) ==
    is_enabled_for(span, id[w]) /\ is_enabled_for(follows, id[w])

\* Filtered::on_follows_from.
on_follows_from(w, span, follows) ==
    /\ Live
    /\ last' = Callback("on_follows_from", "-", w, span, follows,
                        Calls(follows_from_forwards(w, span, follows)), 0)
    /\ UNCHANGED <<dispVars, fmVars, regVars>>

\* Mutant: on_enter that reads the calling thread's slot, as new_span does.
on_enter_slot(w, s) ==
    /\ Live
    /\ \E t \in threads :
           last' = Callback("on_enter", "-", w, s, 0, Calls(did_enable(t, w)), 0)
    /\ UNCHANGED <<dispVars, fmVars, regVars>>

\* Filtered::on_enter.
on_enter(w, s) ==
    /\ Live
    /\ last' = Callback("on_enter", "-", w, s, 0,
                        Calls(if_enabled_for(s, id[w])), 0)
    /\ UNCHANGED <<dispVars, fmVars, regVars>>

\* Filtered::on_exit.
on_exit(w, s) ==
    /\ Live
    /\ last' = Callback("on_exit", "-", w, s, 0,
                        Calls(if_enabled_for(s, id[w])), 0)
    /\ UNCHANGED <<dispVars, fmVars, regVars>>

\* Filtered::on_close.
on_close(w, s) ==
    /\ Live
    /\ last' = Callback("on_close", "-", w, s, 0,
                        Calls(if_enabled_for(s, id[w])), 0)
    /\ UNCHANGED <<dispVars, fmVars, regVars>>

\* Filtered::on_id_change: decided by the old identity of the span alone
\* (the new one takes no part and is left out of the record).
on_id_change(w, old, new) ==
    /\ Live
    /\ last' = Callback("on_id_change", "-", w, old, 0,
                        Calls(if_enabled_for(old, id[w])), 0)
    /\ UNCHANGED <<dispVars, fmVars, regVars>>

\* The filters of the layers answer max_level_hint with hints from H.
InitHint(H) == hint \in [Wrappers -> H]

\* Mutant: max_level_hint left at the trait's default, None.
max_level_hint_default(w) ==
    /\ Live
    /\ last' = Returning(Callback("max_level_hint", "-", w, 0, 0, 0, 0), NoHint)
    /\ UNCHANGED <<dispVars, fmVars, regVars>>

\* Filtered::max_level_hint: self.filter.max_level_hint().
max_level_hint(w) ==
    /\ Live
    /\ last' = Returning(Callback("max_level_hint", "-", w, 0, 0, 0, 0), hint[w])
    /\ UNCHANGED <<dispVars, fmVars, regVars>>

\* Filtered::register_callsite: the body is todo!(), which panics.
register_callsite(w) ==
    /\ Live
    /\ last' = Returning(Callback("register_callsite", "-", w, 0, 0, 0, 0),
                          "panic")
    /\ UNCHANGED <<dispVars, fmVars, regVars>>

InitPipeline(n) ==
    /\ pipeline = n
    /\ registered = 0
    /\ nextId = 1
    /\ failed = FALSE
    /\ id = [w \in 1 .. n |-> NoId]

InitDispatch(ts) ==
    /\ threads = ts
    /\ filtering = [t \in Threads |-> FilterMap_default]
    /\ cur = [t \in Threads |-> NoSubject]
    /\ asked = [t \in Threads |-> [w \in Wrappers |-> "none"]]
    /\ predCalls = [t \in Threads |-> [w \in Wrappers |-> 0]]
    /\ touched = [t \in Threads |-> {}]
    /\ emitted = [t \in Threads |-> [w \in Wrappers |-> 0]]
    /\ delivered = [t \in Threads |-> [w \in Wrappers |-> 0]]
    /\ home = [s \in Spans |-> "-"]
    /\ store = {}
    /\ last = NoCallback

\* ------------------------------------------------------------------------
\* Calls that break the identity contract (SpecContract)
\* ------------------------------------------------------------------------

\* The identities a FilterId can wrap and FilterMap does not accept.
OutOfRangeIds == (BitWidth + 1) .. U8Max

\* Mutant: the assertion written as idx <= 64.
debug_assert_idx_le(idx) == ~build.debug_assertions \/ idx <= BitWidth

\* debug_assert!(idx < 64) passes: it is compiled out or idx < 64.
debug_assert_idx(idx) == ~build.debug_assertions \/ idx < BitWidth

\* 1 << idx does not panic: the build wraps the shift amount or idx < 64.
shl_ok(idx) == ~build.overflow_checks \/ idx < BitWidth

\* The record of a call with identity i and its outcome.
Call(op, i, outcome) == [op |-> op, id |-> i, outcome |-> outcome]

\* FilterMap::set with an identity in 65..255.
FM_set_out_of_range(i, b) ==
    /\ fmOps < MaxSetOps
    /\ fmCall = NoCall
    /\ fmOps' = fmOps + 1
    /\ fmOp' = <<>>
    /\ fmPrev' = fm
    /\ IF debug_assert_idx(i - 1) /\ shl_ok(i - 1)
       THEN /\ fm' = set(fm, i, b)
            /\ fmCall' = Call("set", i, "returned")
       ELSE /\ fm' = fm
            /\ fmCall' = Call("set", i, "panic")
    /\ UNCHANGED <<fmSeed, build, layers, regVars, dispVars, last>>

\* FilterMap::is_enabled with an identity in 65..255.
FM_is_enabled_out_of_range(i) ==
    /\ fmOps < MaxSetOps
    /\ fmCall = NoCall
    /\ fmOps' = fmOps + 1
    /\ fmOp' = <<>>
    /\ fmPrev' = fm
    /\ fm' = fm
    /\ fmCall' = Call("is_enabled", i,
                      IF debug_assert_idx(i - 1) /\ shl_ok(i - 1)
                      THEN Verdict(is_enabled(fm, i))
                      ELSE "panic")
    /\ UNCHANGED <<fmSeed, build, layers, regVars, dispVars, last>>

\* FilterId::new(n) for a u8 n.
FM_FilterId_new(n) ==
    /\ fmOps < MaxSetOps
    /\ fmCall = NoCall
    /\ fmOps' = fmOps + 1
    /\ fmOp' = <<>>
    /\ fmPrev' = fm
    /\ fm' = fm
    /\ fmCall' = Call("FilterId::new", n,
                      IF FilterId_new_ok(n) THEN "returned" ELSE "panic")
    /\ UNCHANGED <<fmSeed, build, layers, regVars, dispVars, last>>

\* ------------------------------------------------------------------------
\* max_level_hint of a stack of layers (SpecOption)
\* ------------------------------------------------------------------------

\* The layers of the stacks: a layer that is not optional ("-"), with its
\* hint (a LevelFilter hints itself, a layer without an opinion None), the
\* optional layer Some(l) with the hint of l, and the optional layer None.
NoneLayer == [opt |-> "None", hint |-> NoHint]

StackLayers ==
    [opt : {"-", "Some"}, hint : Hints] \cup {NoneLayer}

\* The place of a hint in the order of Option<LevelFilter>: None first.
HintRank(h) ==
    IF h = NoHint THEN 0
    ELSE CHOOSE k \in DOMAIN LevelFilters : LevelFilters[k] = h

\* cmp::max of two hints.
HintMax(g, h) == IF HintRank(g) >= HintRank(h) THEN g ELSE h

\* max_level_hint of one layer: an absent optional layer hints OFF, a
\* present one what its layer hints.
Layer_max_level_hint(l) == IF l.opt = "None" THEN "OFF" ELSE l.hint

\* The stack holds nothing but absent optional layers.
is_none(ls) == \A k \in DOMAIN ls : ls[k].opt = "None"

\* Mutant: the two hints combined by cmp::max alone.
Layered_max_level_hint_max(outer, inner, inner_hint) ==
    HintMax(Layer_max_level_hint(outer), inner_hint)

\* max_level_hint of the layer outer stacked on the layers inner, whose
\* hint is inner_hint.
Layered_max_level_hint(outer, inner, inner_hint) ==
    IF inner = <<>> THEN Layer_max_level_hint(outer)
    ELSE IF outer.opt = "None" THEN inner_hint
    ELSE IF is_none(inner) THEN Layer_max_level_hint(outer)
    ELSE HintMax(Layer_max_level_hint(outer), inner_hint)

RECURSIVE Subscriber_max_level_hint(_)

\* max_level_hint of registry().with(ls[1]).with(ls[2]) ...
Subscriber_max_level_hint(ls) ==
    IF ls = <<>> THEN NoHint
    ELSE LET inner == SubSeq(ls, 1, Len(ls) - 1)
         IN  Layered_max_level_hint(ls[Len(ls)], inner,
                                    Subscriber_max_level_hint(inner))

\* subscriber.with(l): the layer l is stacked on the subscriber.
with(l) ==
    /\ Len(layers) < MaxLayers
    /\ layers' = Append(layers, l)
    /\ UNCHANGED <<fmSeed, fmPrev, fm, fmOp, fmOps, fmCall, build, regVars,
                   dispVars, last>>

\* ------------------------------------------------------------------------
\* Specifications
\* ------------------------------------------------------------------------

\* The bitmask as a value: a seed bitmask and set calls on it.
InitFM ==
    /\ fmSeed \in SeedMaps
    /\ build = DebugBuild
    /\ InitFilterMap
    /\ InitPipeline(0)
    /\ InitHint({NoHint})
    /\ InitDispatch({})

NextFM == \E i \in FilterIds, b \in BOOLEAN : FM_set(i, b)

SpecFilterMap == InitFM /\ [][NextFM]_vars

\* The bitmask and the identity under calls that break the contract, in
\* every build profile, after set calls with the first and the last identity
\* of the range.
InitContract ==
    /\ fmSeed \in SeedMaps
    /\ build \in Builds
    /\ InitFilterMap
    /\ InitPipeline(0)
    /\ InitHint({NoHint})
    /\ InitDispatch({})

NextContract ==
    \/ \E i \in {1, BitWidth}, b \in BOOLEAN : FM_set(i, b)
    \/ \E i \in OutOfRangeIds, b \in BOOLEAN : FM_set_out_of_range(i, b)
    \/ \E i \in OutOfRangeIds : FM_is_enabled_out_of_range(i)
    \/ \E n \in 0 .. U8Max : FM_FilterId_new(n)

SpecContract == InitContract /\ [][NextContract]_vars

\* Stacks of layers on the registry.
InitOption ==
    /\ fmSeed = FilterMap_default
    /\ build = DebugBuild
    /\ InitFilterMap
    /\ InitPipeline(0)
    /\ InitHint({NoHint})
    /\ InitDispatch({})

NextOption == \E l \in StackLayers : with(l)

SpecOption == InitOption /\ [][NextOption]_vars

\* Pipeline construction: pipelines of every size up to MaxPipeline.
InitRegister ==
    /\ fmSeed = FilterMap_default
    /\ build = DebugBuild
    /\ InitFilterMap
    /\ \E n \in 0 .. MaxPipeline : InitPipeline(n)
    /\ InitHint({NoHint})
    /\ InitDispatch({})

NextRegister ==
    \/ \E w \in Wrappers : on_register(w)
    \/ callback_returns

SpecRegister == InitRegister /\ [][NextRegister]_vars

\* The pipeline of the scenario's layers: construction, then dispatch on
\* the main thread.
Init ==
    /\ fmSeed = FilterMap_default
    /\ build = DebugBuild
    /\ InitFilterMap
    /\ InitPipeline(Len(Scenario))
    /\ InitHint({NoHint})
    /\ InitDispatch({MainThread})

Next ==
    \/ callback_returns
    \/ \E w \in Wrappers : on_register(w)
    \/ \E w \in Wrappers : register_callsite(w)
    \/ \E w \in Wrappers : max_level_hint(w)
    \/ \E t \in threads : BeginEvent(t)
    \/ \E t \in threads, s \in Spans : BeginSpan(t, s)
    \/ \E t \in threads, w \in Wrappers, v \in BOOLEAN : enabled(t, w, v)
    \/ \E t \in threads, w \in Wrappers, s \in Spans : new_span(t, w, s)
    \/ \E t \in threads, w \in Wrappers : on_event(t, w)
    \/ \E w \in Wrappers, s \in Spans : on_record(w, s)
    \/ \E w \in Wrappers, s \in Spans, f \in Spans : on_follows_from(w, s, f)
    \/ \E w \in Wrappers, s \in Spans : on_enter(w, s)
    \/ \E w \in Wrappers, s \in Spans : on_exit(w, s)
    \/ \E w \in Wrappers, s \in Spans : on_close(w, s)
    \/ \E w \in Wrappers, s \in Spans, n \in Spans : on_id_change(w, s, n)

Spec == Init /\ [][Next]_vars

\* One Filtered layer whose filter gives any hint, dispatching on one thread.
InitHinted ==
    /\ fmSeed = FilterMap_default
    /\ build = DebugBuild
    /\ InitFilterMap
    /\ InitPipeline(1)
    /\ InitHint(Hints)
    /\ InitDispatch({MainThread})

SpecHint == InitHinted /\ [][Next]_vars

\* One Filtered layer dispatching on two threads.
InitThreads ==
    /\ fmSeed = FilterMap_default
    /\ build = DebugBuild
    /\ InitFilterMap
    /\ InitPipeline(1)
    /\ InitHint({NoHint})
    /\ InitDispatch(Threads)

SpecThreads == InitThreads /\ [][Next]_vars

\* ------------------------------------------------------------------------
\* Properties
\* ------------------------------------------------------------------------

\* The layer's verdict for span s is persisted as enabled / as disabled.
StoredTrue(s, w) == <<s, id[w], TRUE>> \in store

StoredFalse(s, w) == <<s, id[w], FALSE>> \in store

StoredNone(s, w) == ~StoredTrue(s, w) /\ ~StoredFalse(s, w)

\* C1: independence across wrappers. For two layers i # j that both
\* evaluated their filter for the event a thread dispatches, in any order of
\* the enabled and on_event callbacks, layer j's inner layer received the
\* event exactly when j's own filter accepted it, whatever i's filter said.
C1_Independence ==
    \A t \in threads : \A i \in Wrappers : \A j \in Wrappers \ {i} :
        ( /\ cur[t].kind = "event"
          /\ asked[t][i] # "none"
          /\ asked[t][j] # "none"
          /\ emitted[t][j] = 1 )
        => /\ id[i] # id[j]
           /\ (delivered[t][j] = 1) = (asked[t][j] = "true")

\* Witness of C1: i's filter rejected the event, j's accepted it and j's
\* inner layer got it.
C1_Witness ==
    \E t \in threads : \E i \in Wrappers : \E j \in Wrappers \ {i} :
        /\ cur[t].kind = "event"
        /\ asked[t][i] = "false"
        /\ asked[t][j] = "true"
        /\ emitted[t][i] = 1
        /\ emitted[t][j] = 1
        /\ delivered[t][j] = 1

\* C2: the concrete scenario. Layer A (identity 1) rejects the event, layer
\* B (identity 2) accepts it; once both got on_event, A's inner layer has
\* received nothing for the event and B's exactly one on_event.
C2_Scenario ==
    \A t \in threads :
        ( /\ cur[t].kind = "event"
          /\ id[1] = 1
          /\ id[2] = 2
          /\ asked[t][1] = "false"
          /\ asked[t][2] = "true"
          /\ emitted[t][1] = 1
          /\ emitted[t][2] = 1 )
        => /\ delivered[t][1] = 0
           /\ delivered[t][2] = 1

\* Witness of C2: the scenario has run to its end.
C2_Witness ==
    \E t \in threads :
        /\ cur[t].kind = "event"
        /\ id[1] = 1
        /\ id[2] = 2
        /\ asked[t][1] = "false"
        /\ asked[t][2] = "true"
        /\ emitted[t][1] = 1
        /\ emitted[t][2] = 1
        /\ filtering[t] = {0}

\* C3: set / is_enabled round trip. After m' = m.set(i, b) with i in 1..64,
\* m'.is_enabled(i) = b, and every other identity reads as it did in m (no
\* other bit of the mask changed).
C3_RoundTrip ==
    fmOp # <<>> =>
        LET i == fmOp[1]
            b == fmOp[2]
        IN  /\ is_enabled(fm, i) = b
            /\ \A j \in FilterIds \ {i} :
                   is_enabled(fm, j) = is_enabled(fmPrev, j)
            /\ fm \ {i - 1} = fmPrev \ {i - 1}

\* Witness of C3: a set call that changed a bitmask other than the default.
C3_Witness ==
    /\ fmOp # <<>>
    /\ fmPrev # FilterMap_default
    /\ fm # fmPrev

\* C4: default-enabled. In the FILTERING slot of a dispatching thread, which
\* starts as the default FilterMap, every identity in 1..64 that no set call
\* has been made with on that thread reads as enabled.
C4_DefaultEnabled ==
    \A t \in threads : \A i \in FilterIds \ touched[t] :
        is_enabled(filtering[t], i)

\* Witness of C4: a slot in which one layer's identity has been disabled
\* while the other layer's identity has not been set yet.
C4_Witness ==
    \E t \in threads : \E w \in Wrappers :
        /\ id[w] \in FilterIds \ touched[t]
        /\ filtering[t] # FilterMap_default

\* C5: cross-reference AND semantics. on_follows_from(span, follows) is
\* forwarded, once, exactly when the layer's persisted verdicts for span and
\* for follows are both enabled; otherwise the inner layer gets no call.
C5_FollowsFromAnd ==
    last.cb = "on_follows_from" =>
        /\ last.fwd \in {0, 1}
        /\ (last.fwd = 1) =
               (StoredTrue(last.a, last.w) /\ StoredTrue(last.b, last.w))

\* Witness of C5: span is enabled for the layer, follows is disabled, and
\* the callback was dropped.
C5_Witness ==
    /\ last.cb = "on_follows_from"
    /\ StoredTrue(last.a, last.w)
    /\ StoredFalse(last.b, last.w)
    /\ last.fwd = 0

\* C6: fail closed. on_record, on_enter, on_exit, on_close and on_id_change
\* for a span with no persisted verdict of this layer, and on_follows_from
\* when either span has none, are not forwarded.
C6_FailClosed ==
    /\ ( /\ last.cb \in {"on_record", "on_enter", "on_exit", "on_close",
                         "on_id_change"}
         /\ StoredNone(last.a, last.w) )
       => last.fwd = 0
    /\ ( /\ last.cb = "on_follows_from"
         /\ StoredNone(last.a, last.w) \/ StoredNone(last.b, last.w) )
       => last.fwd = 0

\* Witness of C6: on_record for a span the layer stored no verdict for,
\* while it did store an enabled verdict for another span.
C6_Witness ==
    /\ last.cb = "on_record"
    /\ StoredNone(last.a, last.w)
    /\ \E s \in Spans : StoredTrue(s, last.w)
    /\ last.fwd = 0

\* C7: allocation exhaustion. Registration fails exactly at the 65th
\* on_register; no layer ever holds an identity outside 0..64, a registered
\* layer of a pipeline that has not failed holds a non-zero one, and after
\* the failure no layer holds an identity at all.
C7_Exhaustion ==
    /\ failed = (registered = BitWidth + 1)
    /\ registered <= BitWidth + 1
    /\ \A w \in Wrappers : id[w] \in 0 .. BitWidth
    /\ ~failed => \A w \in 1 .. registered : id[w] \in FilterIds
    /\ failed => \A w \in Wrappers : id[w] = NoId

\* Witness of C7: a pipeline of 65 layers whose 65th registration failed.
C7_Witness ==
    /\ pipeline = BitWidth + 1
    /\ registered = BitWidth + 1
    /\ failed

\* C8: identity invariant. While the construction has not failed, every
\* registered layer's identity is in 1..64 and no two registered layers
\* share one; and the identity on_register assigned to a layer is the same
\* in every later state of the live pipeline.
C8_IdentityInvariant ==
    /\ [](~failed =>
            \A w \in 1 .. registered :
                /\ id[w] \in FilterIds
                /\ \A v \in 1 .. registered : v # w => id[v] # id[w])
    /\ [][\A w \in Wrappers :
              (id[w] # NoId /\ ~failed') => id'[w] = id[w]]_vars

\* Witness of C8: all 64 identities are handed out.
C8_Witness ==
    /\ ~failed
    /\ registered = BitWidth
    /\ pipeline > BitWidth

\* C9: the predicate is evaluated once per subject. Only the enabled
\* callback calls the filter's predicate, once; a layer that got on_event
\* for the current event has called it exactly once for that event, and a
\* span has at most one verdict per layer.
C9_PredicateOnce ==
    /\ last.cb = "enabled" => last.pred = 1
    /\ last.cb # "enabled" => last.pred = 0
    /\ \A t \in threads : \A w \in Wrappers :
           /\ predCalls[t][w] = (IF asked[t][w] = "none" THEN 0 ELSE 1)
           /\ emitted[t][w] = 1 => predCalls[t][w] = 1
    /\ \A s \in Spans : \A w \in Wrappers :
           ~(StoredTrue(s, w) /\ StoredFalse(s, w))

\* Witness of C9: a layer was asked about an event and then got on_event
\* for it.
C9_Witness ==
    /\ last.cb = "on_event"
    /\ emitted[last.t][last.w] = 1
    /\ predCalls[last.t][last.w] = 1

\* C10: the slot is overwritten for a new event. Once a predicate
\* evaluation has run for the event a thread dispatches, a layer whose
\* predicate has not been evaluated for that event reads as enabled.
C10_Overwritten ==
    \A t \in threads : \A w \in Wrappers :
        ( /\ cur[t].kind = "event"
          /\ \E v \in Wrappers : asked[t][v] # "none"
          /\ asked[t][w] = "none" )
        => is_enabled(filtering[t], id[w])

C16_EvaluateAndRecord ==
    last.cb = "enabled" =>
        /\ last.ret \in {"true", "false"}
        /\ last.ret = asked[last.t][last.w]
        /\ is_enabled(filtering[last.t], id[last.w]) = (last.ret = "true")

\* Witness of C16: enabled returned false for a layer that the slot showed
\* as enabled for the previous subject.
C16_Witness ==
    /\ last.cb = "enabled"
    /\ last.ret = "false"
    /\ filtering[last.t] = {id[last.w] - 1}
    /\ \E v \in Wrappers \ {last.w} : id[v] \in touched[last.t]

\* C17: event emission. on_event for the event a thread dispatches, after
\* the layer's enabled for that event on that thread, makes exactly one
\* inner on_event call if the filter accepted the event and none if it
\* rejected it, and returns normally.
C17_EventEmission ==
    last.cb = "on_event" =>
        /\ last.fwd = (IF asked[last.t][last.w] = "true" THEN 1 ELSE 0)
        /\ delivered[last.t][last.w] = last.fwd
        /\ last.ret = "-"

\* Witness of C17: an event the filter rejected was dropped.
C17_Witness ==
    /\ last.cb = "on_event"
    /\ asked[last.t][last.w] = "false"
    /\ last.fwd = 0

\* C18: span creation. new_span for a span is forwarded exactly when the
\* layer's persisted verdict for that span is enabled, also when another
\* subject was evaluated on the thread in between.
C18_SpanCreation ==
    last.cb = "new_span" =>
        (last.fwd = 1) = StoredTrue(last.a, last.w)

\* C20: frame of the transient bitmask. A step changes a thread's slot only
\* if it is enabled on that thread, and then in no bit but the layer's
\* (identity - 1); so no step takes a slot with other bits set back to the
\* default.
C20_SlotFrame ==
    [][\A t \in Threads :
           filtering'[t] # filtering[t]
           => /\ last'.cb = "enabled"
              /\ last'.t = t
              /\ filtering'[t] \ {id[last'.w] - 1}
                     = filtering[t] \ {id[last'.w] - 1}
              /\ (filtering[t] \ {id[last'.w] - 1} # {}
                     => filtering'[t] # FilterMap_default)]_vars

\* Witness of C20: both layers are disabled in the slot and a callback
\* other than enabled has run on it.
C20_Witness ==
    /\ last.cb = "on_event"
    /\ Cardinality(filtering[last.t]) = 2

\* C12: thread ownership of the transient bitmask. Under any interleaving
\* of two dispatching threads, a callback running on one thread leaves the
\* FILTERING slot of the other thread, and so what did_enable reads there
\* for every registered layer, as it was.
C12_ThreadOwned ==
    [][\A t \in Threads :
           last'.t # t
           => /\ filtering'[t] = filtering[t]
              /\ \A w \in Wrappers :
                     (id[w] # NoId /\ id'[w] # NoId)
                     => (did_enable(t, w))' = did_enable(t, w)]_vars

\* Witness of C12: enabled has just disabled a layer on one thread while
\* the same layer reads as enabled on the other thread, which is
\* dispatching an event that layer has accepted.
C12_Witness ==
    /\ last.cb = "enabled"
    /\ last.ret = "false"
    /\ \E u \in Threads \ {last.t} :
           /\ cur[u].kind = "event"
           /\ asked[u][last.w] = "true"
           /\ did_enable(u, last.w)
    /\ ~did_enable(last.t, last.w)

\* C13: severity hinting. max_level_hint of a layer returns its filter's
\* hint, None included; and whatever the hint, every forwarding decision is
\* the one the recorded verdicts give: on_event and new_span follow the
\* layer's bit in the slot, the other span callbacks the persisted verdict.
C13_HintUnchanged ==
    /\ last.cb = "max_level_hint" => (last.ret = hint[last.w] /\ last.fwd = 0)
    /\ last.cb \in {"on_event", "new_span"}
           => last.fwd = Calls(did_enable(last.t, last.w))
    /\ last.cb \in {"on_record", "on_enter", "on_exit", "on_close",
                    "on_id_change"}
           => last.fwd = Calls(StoredTrue(last.a, last.w))
    /\ last.cb = "on_follows_from"
           => last.fwd = Calls(StoredTrue(last.a, last.w)
                               /\ StoredTrue(last.b, last.w))

\* Witness of C13: a layer whose filter hints OFF has forwarded the event
\* its filter accepted, and reports the hint OFF.
C13_Witness ==
    /\ last.cb = "max_level_hint"
    /\ last.ret = "OFF"
    /\ delivered[MainThread][last.w] = 1

\* C15: every lifecycle entry point, register_callsite included, returns
\* normally.
C15_CompletesNormally == last.ret # "panic"

\* A layer of the stack is not an absent optional layer.
Present(l) == l.opt # "None"

\* The layer l taken out of its Option.
Unwrapped(l) == IF l.opt = "Some" THEN [l EXCEPT !.opt = "-"] ELSE l

\* C14: max-level hint of a stack with an optional layer. A stack of absent
\* optional layers alone hints Some(OFF); absent optional layers in a stack
\* with other layers leave the hint what those layers give (one other
\* layer: its own hint, a level or None); Some(l) counts as l; and two level
\* hints combine to the more permissive one.
C14_OptionHint ==
    LET n == Len(layers)
        H == Subscriber_max_level_hint(layers)
        others == SelectSeq(layers, Present)
    IN  /\ (n > 0 /\ others = <<>>) => H = "OFF"
        /\ others # <<>> => H = Subscriber_max_level_hint(others)
        /\ Len(others) = 1 => H = others[1].hint
        /\ H = Subscriber_max_level_hint([k \in 1 .. n |-> Unwrapped(layers[k])])
        /\ (n = 2 /\ Len(others) = 2 /\ others[1].hint # NoHint
                  /\ others[2].hint # NoHint)
           => /\ H \in {others[1].hint, others[2].hint}
              /\ HintRank(H) >= HintRank(others[1].hint)
              /\ HintRank(H) >= HintRank(others[2].hint)

\* Witness of C14: an absent optional layer stacked on a layer without a
\* hint; the stack has no hint.
C14_Witness ==
    /\ layers = <<[opt |-> "-", hint |-> NoHint], NoneLayer>>
    /\ Subscriber_max_level_hint(layers) = NoHint

\* C19 as stated: set and is_enabled called with an identity in 65..255
\* panic and leave the bitmask as it was, and FilterId::new(0) panics.
C19_ContractViolation ==
    /\ fmCall.op \in {"set", "is_enabled"}
           => (fmCall.outcome = "panic" /\ fm = fmPrev)
    /\ (fmCall.op = "FilterId::new" /\ fmCall.id = 0)
           => fmCall.outcome = "panic"

\* C19, amended: in a build with debug assertions, set and is_enabled
\* called with an identity in 65..255 panic and leave the bitmask as it
\* was; FilterId::new(0) panics in every build.
C19_DebugChecked ==
    /\ (build.debug_assertions /\ fmCall.op \in {"set", "is_enabled"})
           => (fmCall.outcome = "panic" /\ fm = fmPrev)
    /\ (fmCall.op = "FilterId::new" /\ fmCall.id = 0)
           => fmCall.outcome = "panic"

\* Witness of C19: set with identity 65 has panicked on a bitmask other
\* than the default, in a build that has debug assertions and wraps shifts.
C19_Witness ==
    /\ build.debug_assertions
    /\ ~build.overflow_checks
    /\ fmCall = Call("set", BitWidth + 1, "panic")
    /\ fm # FilterMap_default

====
